---- MODULE Spec2Model ----
(***************************************************************************)
(* The API gateway of micro-task (src/api-gateway/src/index.js) as a state *)
(* machine: one record per in-flight request, moved through the Express    *)
(* middleware chain in the order the chain is registered:                  *)
(*   limiter -> X-Request-ID middleware -> routes -> authenticateToken ->  *)
(*   proxy (onProxyReq) -> upstream answer / proxy error.                  *)
(* The users and orders services appear as the upstreams the proxy calls.  *)
(***************************************************************************)
EXTENDS Integers, Sequences, FiniteSets, TLC

\* ------------------------------------------------------------------ bounds

\* Requests the pipeline specification keeps in flight at once.
MaxInFlight == 1
\* Requests the limiter specification keeps in flight at once.
MaxConcurrent == 2
\* Requests a client may send beyond the ceiling within one window.
MaxOver == 2
\* Requests the second client sends within one window.
MaxOtherHits == 2
\* Ticks of the window clock.
MaxTime == 1
\* Identifiers uuidv4 hands out.
MaxUuids == 2

\* ------------------------------------------------------- program constants

\* rateLimit({ max: 100 })
max == 100

\* A JavaScript undefined: a header that is absent, a claim a payload lacks.
Undefined == "undefined"

\* process.env.JWT_SECRET || 'your-secret-key'
GatewaySecret(env) == IF env = Undefined THEN "your-secret-key" ELSE env

\* process.env.JWT_SECRET || 'my-key'
UsersSecret(env) == IF env = Undefined THEN "my-key" ELSE env

VARIABLES
    jwtEnv,     \* process.env.JWT_SECRET, shared by the gateway and the users service
    now,        \* the clock, in units of windowMs
    hits,       \* the limiter's store: client key -> requests counted this window
    req,        \* slot -> the request in that slot and how far it has come
    uuidCount,  \* how many identifiers uuidv4 has handed out
    admitted,   \* history: client key -> requests the limiter let through this window
    rejected    \* history: client key -> requests the limiter answered 429 this window

\* The upstream services' own state.
VARIABLES
    users,      \* users service: the stored users, in insertion order
    reg,        \* users service: registration request -> how far it has come
    adminPc,    \* users service: how far createAdminUser has come
    orders,     \* orders service: the stored orders, in array order
    oresp       \* orders service: the request last handled and its response

svcVars == <<users, reg, adminPc, orders, oresp>>

vars == <<jwtEnv, now, hits, req, uuidCount, admitted, rejected, svcVars>>

ClientKeys == {"ip1", "ip2"}
Slots == 1..MaxConcurrent
PipelineSlots == 1..MaxInFlight

\* -------------------------------------------------------------- tokens

\* jwt.sign(..., { expiresIn: '24h' }): 96 windows of 15 minutes.
TokenLife == 96

\* The bearer tokens clients present. tU is the one the users service issues on
\* register and login: payload {userId, email, roles}, signed with its JWT_SECRET.
\* tR carries a role claim and is signed with the gateway's secret, tX is the
\* same past its expiry, tF carries a signature made with another key.
TokenIds == {"tU", "tR", "tX", "tF"}

Token(id, env) ==
    CASE id = "tU" -> [userId |-> "u1", role |-> Undefined, roles |-> "user",
                       key |-> UsersSecret(env), exp |-> TokenLife]
      [] id = "tR" -> [userId |-> "u2", role |-> "admin", roles |-> Undefined,
                       key |-> GatewaySecret(env), exp |-> TokenLife]
      [] id = "tX" -> [userId |-> "u2", role |-> "admin", roles |-> Undefined,
                       key |-> GatewaySecret(env), exp |-> 0]
      [] OTHER     -> [userId |-> "u1", role |-> "admin", roles |-> Undefined,
                       key |-> "forged", exp |-> TokenLife]

\* jwt.decode in place of jwt.verify: the signature is not checked.
JwtVerifyIgnoresSignature(id, secret, t) ==
    /\ id \in TokenIds
    /\ t < Token(id, jwtEnv).exp

\* jwt.verify with the expiry compared the other way round: a token is still
\* accepted at the instant it expires.
JwtVerifyExpiresLate(id, secret, t) ==
    /\ id \in TokenIds
    /\ Token(id, jwtEnv).key = secret
    /\ t <= Token(id, jwtEnv).exp

\* jwt.verify with the expiry check left out (ignoreExpiration).
JwtVerifyIgnoresExpiry(id, secret, t) ==
    /\ id \in TokenIds
    /\ Token(id, jwtEnv).key = secret

\* jwt.verify(token, secret): the signature is the secret's and the token has
\* not expired (jsonwebtoken throws once the clock reaches exp).
JwtVerify(id, secret, t) ==
    /\ id \in TokenIds
    /\ Token(id, jwtEnv).key = secret
    /\ t < Token(id, jwtEnv).exp

\* authHeader && authHeader.split(' ')[1]; a header is the sequence of its
\* space-separated words, the absent header the empty sequence.
SplitToken(authHeader) ==
    IF Len(authHeader) >= 2 THEN authHeader[2] ELSE Undefined

\* ------------------------------------------------------------- limiter

\* An increment that reads the counter, yields, and writes back: the write of
\* a request is lost while another request of the client is past its own read.
IncrementLostUpdate(store, key) ==
    IF \E j \in DOMAIN req : req[j].ip = key /\ req[j].pc \in {"admitted", "enriched"}
    THEN store
    ELSE [store EXCEPT ![key] = @ + 1]

\* A store with one counter for all clients: every key's count goes up.
IncrementAll(store, key) == [k \in DOMAIN store |-> store[k] + 1]

\* The store's increment of the client's counter: one synchronous step.
Increment(store, key) == [store EXCEPT ![key] = @ + 1]

\* The comparison made with the count before the increment.
AllowBeforeIncrement(totalHits) == totalHits - 1 <= max

\* express-rate-limit answers 429 once the incremented count exceeds max.
Allow(totalHits) == totalHits <= max

\* ------------------------------------------------------------ enricher

\* JavaScript truthiness of a header value: absent and empty are falsy.
Truthy(v) == v # Undefined /\ v # ""

\* uuidv4(): an identifier not handed out before.
UuidPool == <<"uuid-1", "uuid-2", "uuid-3", "uuid-4">>
Uuidv4(n) == UuidPool[n + 1]

\* req.headers['x-request-id'] || uuidv4()
RequestId(header, n) == IF Truthy(header) THEN header ELSE Uuidv4(n)

\* -------------------------------------------------------------- router

UsersAuthPrefix == <<"api", "v1", "users", "auth">>
UsersPrefix == <<"api", "v1", "users">>
OrdersPrefix == <<"api", "v1", "orders">>

\* The protected users mount registered before the public one.
LayersProtectedFirst ==
    << [kind |-> "get", path |-> <<>>, auth |-> FALSE, handler |-> "root"],
       [kind |-> "use", path |-> UsersPrefix, auth |-> TRUE, handler |-> "users"],
       [kind |-> "use", path |-> UsersAuthPrefix, auth |-> FALSE, handler |-> "users"],
       [kind |-> "use", path |-> OrdersPrefix, auth |-> TRUE, handler |-> "orders"],
       [kind |-> "get", path |-> <<"health">>, auth |-> FALSE, handler |-> "health"],
       [kind |-> "use", path |-> <<>>, auth |-> FALSE, handler |-> "notFound"] >>

\* The routes in the order they are registered. app.get matches its path
\* exactly, app.use every path under its mount point; '*' is every path.
Layers ==
    << [kind |-> "get", path |-> <<>>, auth |-> FALSE, handler |-> "root"],
       [kind |-> "use", path |-> UsersAuthPrefix, auth |-> FALSE, handler |-> "users"],
       [kind |-> "use", path |-> UsersPrefix, auth |-> TRUE, handler |-> "users"],
       [kind |-> "use", path |-> OrdersPrefix, auth |-> TRUE, handler |-> "orders"],
       [kind |-> "get", path |-> <<"health">>, auth |-> FALSE, handler |-> "health"],
       [kind |-> "use", path |-> <<>>, auth |-> FALSE, handler |-> "notFound"] >>

IsPrefix(p, path) == Len(p) <= Len(path) /\ SubSeq(path, 1, Len(p)) = p

\* app.all in place of app.get: the method is not looked at.
LayerMatchesAnyMethod(l, method, path) ==
    IF l.kind = "get" THEN path = l.path
    ELSE IsPrefix(l.path, path)

LayerMatches(l, method, path) ==
    IF l.kind = "get" THEN method = "GET" /\ path = l.path
    ELSE IsPrefix(l.path, path)

\* Express walks the layers in order; the first that matches handles the request.
Match(method, path) ==
    CHOOSE n \in 1..Len(Layers) :
        /\ LayerMatches(Layers[n], method, path)
        /\ \A m \in 1..(n - 1) : ~LayerMatches(Layers[m], method, path)

\* pathRewrite: '^/api/v1/users' -> '/api/v1', '^/api/v1/orders' -> '/api/v1'
PathRewrite(handler, path) ==
    LET prefix == IF handler = "users" THEN UsersPrefix ELSE OrdersPrefix
    IN  IF IsPrefix(prefix, path)
        THEN <<"api", "v1">> \o SubSeq(path, Len(prefix) + 1, Len(path))
        ELSE path

\* ------------------------------------------------------------ requests

\* What clients send: method and path, the Authorization header, the
\* X-Request-ID header, and X-User-ID / X-User-Role headers of their own.
Endpoints ==
    { [method |-> "GET",  path |-> <<>>],
      [method |-> "GET",  path |-> <<"health">>],
      [method |-> "POST", path |-> <<"health">>],
      [method |-> "POST", path |-> <<"api", "v1", "users", "auth", "login">>],
      [method |-> "GET",  path |-> <<"api", "v1", "users", "profile">>],
      [method |-> "GET",  path |-> <<"api", "v1", "orders">>] }

AuthHeaders == {<<>>} \cup { <<"Bearer", t>> : t \in TokenIds }

RequestIdHeaders == {Undefined, "", "abc-123"}

NoIdentity == [xuid |-> Undefined, xrole |-> Undefined]
IdentityHeaders == {NoIdentity, [xuid |-> "u9", xrole |-> "admin"]}

\* The requests clients send. A header no middleware on the request's route
\* reads is left out: Authorization off the protected mounts, the identity
\* headers off the proxied ones.
Requests ==
    { r \in [ep : Endpoints, auth : AuthHeaders, xrid : RequestIdHeaders,
             ident : IdentityHeaders] :
        LET l == Layers[Match(r.ep.method, r.ep.path)]
        IN  /\ l.auth \/ r.auth = <<>>
            /\ l.handler \in {"users", "orders"} \/ r.ident = NoIdentity }

\* The health probe, sent with a request id of the client's.
Probe == [ep |-> [method |-> "GET", path |-> <<"health">>], auth |-> <<>>,
          xrid |-> "abc-123", ident |-> NoIdentity]

\* A free slot.
IdleReq ==
    [ pc |-> "idle", ip |-> Undefined, method |-> Undefined, path |-> <<>>,
      authorization |-> <<>>,
      inXrid |-> Undefined,      \* X-Request-ID as the client sent it
      hXrid |-> Undefined,       \* req.headers['x-request-id']
      hXuid |-> Undefined,       \* req.headers['x-user-id']
      hXrole |-> Undefined,      \* req.headers['x-user-role']
      user |-> Undefined,        \* req.user: the token whose payload it is
      current |-> 0,             \* req.rateLimit.current
      resetTime |-> 0,           \* req.rateLimit.resetTime: the end of its window
      layer |-> 0,               \* the layer that matched
      status |-> 0,              \* the response's status, 0 while there is none
      code |-> Undefined,        \* the response body's error.code
      resXrid |-> Undefined,     \* the response's X-Request-ID header
      upstream |-> Undefined,    \* the service the outbound call went to
      oPath |-> <<>>,            \* the outbound call's path
      oXrid |-> Undefined,       \* the outbound call's X-Request-ID
      oXuid |-> Undefined,       \* the outbound call's X-User-ID
      oXrole |-> Undefined,      \* the outbound call's X-User-Role
      behaviour |-> Undefined ]  \* what the upstream does with the call

\* Requests of client key that have arrived and not yet reached the limiter.
Pending(key) == Cardinality({ j \in Slots : req[j].pc = "received" /\ req[j].ip = key })

\* Requests that will ask uuidv4 for an identifier and have not yet.
AwaitingUuid ==
    Cardinality({ j \in Slots : req[j].pc \in {"received", "admitted"}
                                /\ ~Truthy(req[j].inXrid) })

HitCap(key) == IF key = "ip1" THEN max + MaxOver ELSE MaxOtherHits

\* A request arrives: Express hands it to the middleware chain.
Arrive(i, key, r) ==
    /\ req[i].pc = "idle"
    /\ hits[key] + Pending(key) < HitCap(key)
    /\ Truthy(r.xrid) \/ uuidCount + AwaitingUuid < MaxUuids
    /\ req' = [req EXCEPT ![i] =
                 [IdleReq EXCEPT !.pc = "received", !.ip = key,
                                 !.method = r.ep.method, !.path = r.ep.path,
                                 !.authorization = r.auth,
                                 !.inXrid = r.xrid, !.hXrid = r.xrid,
                                 !.hXuid = r.ident.xuid, !.hXrole = r.ident.xrole]]
    /\ UNCHANGED <<svcVars, jwtEnv, now, hits, uuidCount, admitted, rejected>>

\* app.use(limiter): count the request against its client's window and answer
\* 429 when the count has passed max, before any later middleware has run.
Limiter(i) ==
    /\ req[i].pc = "received"
    /\ LET key == req[i].ip
           store == Increment(hits, key)
           totalHits == store[key]
       IN  /\ hits' = store
           /\ IF Allow(totalHits)
              THEN /\ req' = [req EXCEPT ![i].pc = "admitted",
                                         ![i].current = totalHits,
                                         ![i].resetTime = now + 1]
                   /\ admitted' = [admitted EXCEPT ![key] = @ + 1]
                   /\ UNCHANGED rejected
              ELSE /\ req' = [req EXCEPT ![i].pc = "responded",
                                         ![i].current = totalHits,
                                         ![i].resetTime = now + 1,
                                         ![i].status = 429]
                   /\ rejected' = [rejected EXCEPT ![key] = @ + 1]
                   /\ UNCHANGED admitted
    /\ UNCHANGED <<svcVars, jwtEnv, now, uuidCount>>

\* The X-Request-ID middleware: take the inbound identifier or a fresh one,
\* write it to the request's headers and to the response.
Enrich(i) ==
    /\ req[i].pc = "admitted"
    /\ LET requestId == RequestId(req[i].hXrid, uuidCount)
       IN  /\ req' = [req EXCEPT ![i].pc = "enriched",
                                 ![i].hXrid = requestId,
                                 ![i].resXrid = requestId]
           /\ uuidCount' = IF Truthy(req[i].hXrid) THEN uuidCount ELSE uuidCount + 1
    /\ UNCHANGED <<svcVars, jwtEnv, now, hits, admitted, rejected>>

\* The route handlers, first match first: GET / and GET /health answer at once,
\* '*' answers 404, a proxied mount goes on to authenticateToken when it is
\* registered with it and straight to the proxy when it is not.
Route(i) ==
    /\ req[i].pc = "enriched"
    /\ LET n == Match(req[i].method, req[i].path)
           l == Layers[n]
       IN  req' = [req EXCEPT
                     ![i].layer = n,
                     ![i].pc = IF l.handler \in {"users", "orders"}
                               THEN (IF l.auth THEN "auth" ELSE "proxy")
                               ELSE "responded",
                     ![i].status = IF l.handler \in {"root", "health"} THEN 200
                                   ELSE IF l.handler = "notFound" THEN 404
                                   ELSE 0,
                     ![i].code = IF l.handler = "notFound" THEN "NOT_FOUND"
                                 ELSE Undefined]
    /\ UNCHANGED <<svcVars, jwtEnv, now, hits, uuidCount, admitted, rejected>>

\* authenticateToken: 401 without a token, 403 when jwt.verify throws, and
\* otherwise req.user = the payload and next().
AuthenticateToken(i) ==
    /\ req[i].pc = "auth"
    /\ LET token == SplitToken(req[i].authorization)
       IN  IF token = Undefined
           THEN req' = [req EXCEPT ![i].pc = "responded", ![i].status = 401,
                                   ![i].code = "UNAUTHORIZED"]
           ELSE IF JwtVerify(token, GatewaySecret(jwtEnv), now)
           THEN req' = [req EXCEPT ![i].pc = "proxy", ![i].user = token]
           ELSE req' = [req EXCEPT ![i].pc = "responded", ![i].status = 403,
                                   ![i].code = "INVALID_TOKEN"]
    /\ UNCHANGED <<svcVars, jwtEnv, now, hits, uuidCount, admitted, rejected>>

\* onProxyReq on the outbound request, which starts as a copy of the inbound
\* headers h: with req.user set, setHeader('X-User-ID', req.user.userId) and
\* then setHeader('X-User-Role', req.user.role). setHeader throws on an
\* undefined value, and what it had set before stays set.
OnProxyReq(h, user) ==
    IF user = Undefined
    THEN [xuid |-> h.xuid, xrole |-> h.xrole, threw |-> FALSE]
    ELSE LET payload == Token(user, jwtEnv)
         IN  IF payload.userId = Undefined
             THEN [xuid |-> h.xuid, xrole |-> h.xrole, threw |-> TRUE]
             ELSE IF payload.role = Undefined
             THEN [xuid |-> payload.userId, xrole |-> h.xrole, threw |-> TRUE]
             ELSE [xuid |-> payload.userId, xrole |-> payload.role, threw |-> FALSE]

\* What an upstream may do with a call: answer it, refuse the connection, or
\* accept the connection and never answer.
Behaviours == {"answers", "refuses", "hangs"}

\* usersServiceProxy / ordersServiceProxy: rewrite the path, copy the inbound
\* headers, run onProxyReq and send the call. When onProxyReq throws, the
\* call is never sent and this code writes no response.
ProxyReq(i, b) ==
    /\ req[i].pc = "proxy"
    /\ LET l == Layers[req[i].layer]
           o == OnProxyReq([xuid |-> req[i].hXuid, xrole |-> req[i].hXrole],
                           req[i].user)
       IN  IF o.threw
           THEN req' = [req EXCEPT ![i].pc = "threw"]
           ELSE req' = [req EXCEPT ![i].pc = "forwarded",
                                   ![i].upstream = l.handler,
                                   ![i].oPath = PathRewrite(l.handler, req[i].path),
                                   ![i].oXrid = req[i].hXrid,
                                   ![i].oXuid = o.xuid,
                                   ![i].oXrole = o.xrole,
                                   ![i].behaviour = b]
    /\ UNCHANGED <<svcVars, jwtEnv, now, hits, uuidCount, admitted, rejected>>

\* The upstream answers; its request-tracking middleware echoes the
\* X-Request-ID it received, and the proxy relays status and headers.
UpstreamResponds(i) ==
    /\ req[i].pc = "forwarded"
    /\ req[i].behaviour = "answers"
    /\ req' = [req EXCEPT ![i].pc = "responded", ![i].status = 200,
                          ![i].resXrid = req[i].oXrid]
    /\ UNCHANGED <<svcVars, jwtEnv, now, hits, uuidCount, admitted, rejected>>

\* The statuses the proxy library's own error handler answers with; the
\* proxies are created without an error handler of the gateway's.
ProxyErrorStatuses == {500, 502, 504}

\* The connection to the upstream fails: the proxy library answers with its
\* plain-text error, which has no error.code.
ProxyError(i, st) ==
    /\ req[i].pc = "forwarded"
    /\ req[i].behaviour = "refuses"
    /\ req' = [req EXCEPT ![i].pc = "responded", ![i].status = st,
                          ![i].code = Undefined]
    /\ UNCHANGED <<svcVars, jwtEnv, now, hits, uuidCount, admitted, rejected>>

\* The response has been written (or the call was abandoned): the request
\* context is discarded.
Close(i) ==
    /\ req[i].pc \in {"responded", "threw"}
    /\ req' = [req EXCEPT ![i] = IdleReq]
    /\ UNCHANGED <<svcVars, jwtEnv, now, hits, uuidCount, admitted, rejected>>

\* windowMs passes: the limiter's store starts a new window.
\* A store whose windows never end: the clock moves on and the counts stay.
TickToKeepsCounts(limit) ==
    /\ now < limit
    /\ now' = now + 1
    /\ UNCHANGED <<svcVars, jwtEnv, hits, admitted, rejected, req, uuidCount>>

TickTo(limit) ==
    /\ now < limit
    /\ now' = now + 1
    /\ hits' = [k \in ClientKeys |-> 0]
    /\ admitted' = [k \in ClientKeys |-> 0]
    /\ rejected' = [k \in ClientKeys |-> 0]
    /\ UNCHANGED <<svcVars, jwtEnv, req, uuidCount>>

Tick == TickTo(MaxTime)

\* ------------------------------------------------------ upstream routes

\* The handlers the users service registers.
UsersRoutes ==
    { [method |-> "POST", path |-> <<"api", "v1", "register">>],
      [method |-> "POST", path |-> <<"api", "v1", "login">>],
      [method |-> "GET",  path |-> <<"api", "v1", "profile">>],
      [method |-> "PUT",  path |-> <<"api", "v1", "profile">>],
      [method |-> "GET",  path |-> <<"api", "v1", "users">>],
      [method |-> "GET",  path |-> <<"health">>],
      [method |-> "GET",  path |-> <<"api", "v1", "debug", "requests">>],
      [method |-> "GET",  path |-> <<>>] }

\* The handlers the orders service registers.
OrdersRoutes ==
    { [method |-> "POST",   path |-> <<"api", "v1", "orders">>],
      [method |-> "GET",    path |-> <<"api", "v1", "orders", ":id">>],
      [method |-> "GET",    path |-> <<"api", "v1", "orders">>],
      [method |-> "PATCH",  path |-> <<"api", "v1", "orders", ":id">>],
      [method |-> "DELETE", path |-> <<"api", "v1", "orders", ":id">>],
      [method |-> "GET",    path |-> <<"health">>],
      [method |-> "GET",    path |-> <<"api", "v1", "debug", "requests">>] }

\* Express matches a route pattern segment by segment; ':id' is any segment.
RouteMatches(pattern, path) ==
    /\ Len(pattern) = Len(path)
    /\ \A k \in 1..Len(pattern) : pattern[k] = ":id" \/ pattern[k] = path[k]

\* The service has a handler for the method and path.
Registered(service, method, path) ==
    \E rt \in (IF service = "users" THEN UsersRoutes ELSE OrdersRoutes) :
        rt.method = method /\ RouteMatches(rt.path, path)

\* ------------------------------------------------------- users service

\* Registrations the users service handles at once.
MaxRegs == 2

RegSlots == 1..MaxRegs

\* A free registration slot.
IdleReg == [pc |-> "idle", email |-> Undefined, status |-> 0, code |-> Undefined]

\* Users the store holds at most in a run.
MaxUsers == 4

\* The email of a registration body; one that fails registerSchema is among them.
RegisterEmails == {"a@x.com", "admin@example.com", "not-an-email"}

\* registerSchema.parse: z.string().email()
ValidEmail(email) == email \in {"a@x.com", "admin@example.com"}

\* users.find(u => u.email === email)
FindUser(email) == \E k \in DOMAIN users : users[k].email = email

\* Users stored or about to be: the awaited hashes end in a push.
UsersDue ==
    Len(users) + Cardinality({ s \in RegSlots : reg[s].pc = "hashing" })
               + (IF adminPc = "hashing" THEN 1 ELSE 0)

\* POST /api/v1/register up to its await: validate the body, look the email
\* up, answer 400 when it fails or is taken, otherwise start bcrypt.hash and
\* yield to the event loop.
RegisterCheck(s, email) ==
    /\ reg[s].pc = "idle"
    /\ UsersDue < MaxUsers
    /\ reg' = [reg EXCEPT ![s] =
                 IF ~ValidEmail(email)
                 THEN [pc |-> "responded", email |-> email, status |-> 400,
                       code |-> "VALIDATION_ERROR"]
                 ELSE IF FindUser(email)
                 THEN [pc |-> "responded", email |-> email, status |-> 400,
                       code |-> "USER_EXISTS"]
                 ELSE [pc |-> "hashing", email |-> email, status |-> 0,
                       code |-> Undefined]]
    /\ UNCHANGED <<users, adminPc, orders, oresp>>
    /\ UNCHANGED <<jwtEnv, now, hits, req, uuidCount, admitted, rejected>>

\* POST /api/v1/register after the hash has resolved: push the user and
\* answer 201 with a token.
RegisterInsert(s) ==
    /\ reg[s].pc = "hashing"
    /\ users' = Append(users, [email |-> reg[s].email, roles |-> "user"])
    /\ reg' = [reg EXCEPT ![s].pc = "responded", ![s].status = 201]
    /\ UNCHANGED <<adminPc, orders, oresp>>
    /\ UNCHANGED <<jwtEnv, now, hits, req, uuidCount, admitted, rejected>>

\* createAdminUser after its hash has resolved: push admin@example.com.
AdminCreated ==
    /\ adminPc = "hashing"
    /\ users' = Append(users, [email |-> "admin@example.com", roles |-> "admin"])
    /\ adminPc' = "done"
    /\ UNCHANGED <<reg, orders, oresp>>
    /\ UNCHANGED <<jwtEnv, now, hits, req, uuidCount, admitted, rejected>>

\* The registration's response has been written.
RegClose(s) ==
    /\ reg[s].pc = "responded"
    /\ reg' = [reg EXCEPT ![s] = IdleReg]
    /\ UNCHANGED <<users, adminPc, orders, oresp>>
    /\ UNCHANGED <<jwtEnv, now, hits, req, uuidCount, admitted, rejected>>

\* ------------------------------------------------------ orders service

\* Before the orders service has handled a request.
NoResponse ==
    [op |-> "none", uid |-> Undefined, role |-> Undefined, id |-> 0,
     status |-> 0, code |-> Undefined, returned |-> <<>>]

\* Orders the store holds at most in a run.
MaxOrders == 2

ORDER_STATUS ==
    [CREATED |-> "created", IN_PROGRESS |-> "in_progress",
     COMPLETED |-> "completed", CANCELLED |-> "cancelled"]

\* An update schema that also lets a status be set back to 'created'.
UpdateOrderSchemaWithCreated ==
    {ORDER_STATUS.CREATED, ORDER_STATUS.IN_PROGRESS, ORDER_STATUS.COMPLETED,
     ORDER_STATUS.CANCELLED}

\* updateOrderSchema: the statuses a PATCH body may carry.
UpdateOrderSchema ==
    {ORDER_STATUS.IN_PROGRESS, ORDER_STATUS.COMPLETED, ORDER_STATUS.CANCELLED}

\* The status of a PATCH body; 'created' and 'shipped' fail the schema.
PatchStatuses ==
    {ORDER_STATUS.CREATED, ORDER_STATUS.IN_PROGRESS, ORDER_STATUS.COMPLETED,
     "shipped"}

\* createOrderSchema: at least one item and a positive total.
CreateOrderSchema(body) == Len(body.items) >= 1 /\ body.totalAmount > 0

\* The bodies of POST /api/v1/orders.
OrderBodies ==
    { [items |-> <<"book">>, totalAmount |-> 10],
      [items |-> <<"book">>, totalAmount |-> 20],
      [items |-> <<>>,       totalAmount |-> 10],
      [items |-> <<"book">>, totalAmount |-> 0] }

\* The X-User-ID and X-User-Role headers callers of the orders service send.
Callers ==
    { [uid |-> Undefined, role |-> Undefined],
      [uid |-> "u1", role |-> "user"],
      [uid |-> "u2", role |-> Undefined],
      [uid |-> "u9", role |-> "admin"] }

\* req.params.id: the ids of stored orders and one of no order.
OrderIds == 1..(MaxOrders + 1)

\* authenticate of the orders service: 401 unless X-User-ID is present.
OrdersAuthenticate(c) == Truthy(c.uid)

canViewOrder(order, userId, userRole) ==
    order.userId = userId \/ userRole = "admin"

\* A permission check that lets every caller update.
CanUpdateOrderAnyone(order, userId, userRole) == TRUE

canUpdateOrder(order, userId, userRole) ==
    order.userId = userId \/ userRole = "admin"

\* orders.findIndex(o => o.id === id), from 1; 0 when there is none.
FindIndex(list, id) ==
    IF \E k \in DOMAIN list : list[k].id = id
    THEN CHOOSE k \in DOMAIN list :
            /\ list[k].id = id
            /\ \A m \in 1..(k - 1) : list[m].id # id
    ELSE 0

\* array.filter(test) for the two filters of the list handler.
RECURSIVE FilterOrders(_, _, _)
FilterOrders(list, field, value) ==
    IF Len(list) = 0 THEN <<>>
    ELSE LET rest == FilterOrders(SubSeq(list, 1, Len(list) - 1), field, value)
             o == list[Len(list)]
         IN  IF (IF field = "userId" THEN o.userId ELSE o.status) = value
             THEN Append(rest, o)
             ELSE rest

\* What the comparator of the list handler orders by, larger first; any
\* other sort parameter compares everything equal.
SortKey(o, sort) ==
    IF sort = "createdAt" THEN o.createdAt
    ELSE IF sort = "totalAmount" THEN o.totalAmount
    ELSE 0

\* Array.prototype.sort with that comparator: descending and stable.
RECURSIVE SortOrders(_, _)
SortOrders(list, sort) ==
    IF Len(list) = 0 THEN <<>>
    ELSE LET done == SortOrders(SubSeq(list, 1, Len(list) - 1), sort)
             o == list[Len(list)]
             n == Cardinality({ k \in DOMAIN done :
                                  SortKey(done[k], sort) >= SortKey(o, sort) })
         IN  SubSeq(done, 1, n) \o <<o>> \o SubSeq(done, n + 1, Len(done))

\* parseInt of a query parameter, the default taken when it is absent.
ParseInt(param, default) ==
    CASE param = Undefined -> default
      [] param = "1" -> 1
      [] param = "2" -> 2
      [] OTHER -> 10

\* array.slice(startIndex, endIndex), indices from 0.
Slice(list, startIndex, endIndex) ==
    LET lo == IF startIndex > Len(list) THEN Len(list) ELSE startIndex
        hi == IF endIndex > Len(list) THEN Len(list) ELSE endIndex
    IN  SubSeq(list, lo + 1, hi)

\* The query parameters of GET /api/v1/orders.
ListQueries ==
    [ page : {Undefined, "2"}, limit : {Undefined, "1"},
      status : {Undefined, ORDER_STATUS.CANCELLED},
      sort : {Undefined, "totalAmount", "none"} ]

OrderIdsOf(list) == [k \in DOMAIN list |-> list[k].id]

\* res.status(status).json(...) of the orders service.
Respond(op, c, id, status, code, returned) ==
    [op |-> op, uid |-> c.uid, role |-> c.role, id |-> id,
     status |-> status, code |-> code, returned |-> returned]

\* POST /api/v1/orders
CreateOrder(c, body) ==
    /\ Len(orders) < MaxOrders
    /\ IF ~OrdersAuthenticate(c)
       THEN /\ oresp' = Respond("create", c, 0, 401, "UNAUTHORIZED", <<>>)
            /\ UNCHANGED orders
       ELSE IF ~CreateOrderSchema(body)
       THEN /\ oresp' = Respond("create", c, 0, 400, "VALIDATION_ERROR", <<>>)
            /\ UNCHANGED orders
       ELSE LET order == [id |-> Len(orders) + 1, userId |-> c.uid,
                          items |-> body.items, totalAmount |-> body.totalAmount,
                          status |-> ORDER_STATUS.CREATED,
                          createdAt |-> Len(orders) + 1]
            IN  /\ orders' = Append(orders, order)
                /\ oresp' = Respond("create", c, order.id, 201, Undefined, <<order.id>>)
    /\ UNCHANGED <<users, reg, adminPc>>
    /\ UNCHANGED <<jwtEnv, now, hits, req, uuidCount, admitted, rejected>>

\* GET /api/v1/orders/:id
GetOrder(c, id) ==
    /\ LET k == FindIndex(orders, id)
       IN  oresp' =
             IF ~OrdersAuthenticate(c)
             THEN Respond("get", c, id, 401, "UNAUTHORIZED", <<>>)
             ELSE IF k = 0
             THEN Respond("get", c, id, 404, "ORDER_NOT_FOUND", <<>>)
             ELSE IF ~canViewOrder(orders[k], c.uid, c.role)
             THEN Respond("get", c, id, 403, "FORBIDDEN", <<>>)
             ELSE Respond("get", c, id, 200, Undefined, <<id>>)
    /\ UNCHANGED <<users, reg, adminPc, orders>>
    /\ UNCHANGED <<jwtEnv, now, hits, req, uuidCount, admitted, rejected>>

\* GET /api/v1/orders: filter, sort, paginate. The sort is in place: it
\* sorts the stored array itself when no filter has made a copy of it.
ListOrders(c, q) ==
    /\ IF ~OrdersAuthenticate(c)
       THEN /\ oresp' = Respond("list", c, 0, 401, "UNAUTHORIZED", <<>>)
            /\ UNCHANGED orders
       ELSE LET pageNum == ParseInt(q.page, 1)
                limitNum == ParseInt(q.limit, 10)
                sort == IF q.sort = Undefined THEN "createdAt" ELSE q.sort
                byUser == IF c.role # "admin"
                          THEN FilterOrders(orders, "userId", c.uid)
                          ELSE orders
                byStatus == IF Truthy(q.status)
                            THEN FilterOrders(byUser, "status", q.status)
                            ELSE byUser
                isStored == c.role = "admin" /\ ~Truthy(q.status)
                userOrders == SortOrders(byStatus, sort)
                startIndex == (pageNum - 1) * limitNum
                endIndex == startIndex + limitNum
                paginatedOrders == Slice(userOrders, startIndex, endIndex)
            IN  /\ orders' = IF isStored THEN userOrders ELSE orders
                /\ oresp' = Respond("list", c, 0, 200, Undefined,
                                    OrderIdsOf(paginatedOrders))
    /\ UNCHANGED <<users, reg, adminPc>>
    /\ UNCHANGED <<jwtEnv, now, hits, req, uuidCount, admitted, rejected>>

\* PATCH /api/v1/orders/:id: the body is validated before the order is
\* looked up and the permission checked.
PatchOrder(c, id, status) ==
    /\ LET orderIndex == FindIndex(orders, id)
       IN  IF ~OrdersAuthenticate(c)
           THEN /\ oresp' = Respond("patch", c, id, 401, "UNAUTHORIZED", <<>>)
                /\ UNCHANGED orders
           ELSE IF status \notin UpdateOrderSchema
           THEN /\ oresp' = Respond("patch", c, id, 400, "VALIDATION_ERROR", <<>>)
                /\ UNCHANGED orders
           ELSE IF orderIndex = 0
           THEN /\ oresp' = Respond("patch", c, id, 404, "ORDER_NOT_FOUND", <<>>)
                /\ UNCHANGED orders
           ELSE IF ~canUpdateOrder(orders[orderIndex], c.uid, c.role)
           THEN /\ oresp' = Respond("patch", c, id, 403, "FORBIDDEN", <<>>)
                /\ UNCHANGED orders
           ELSE /\ orders' = [orders EXCEPT ![orderIndex].status = status]
                /\ oresp' = Respond("patch", c, id, 200, Undefined, <<id>>)
    /\ UNCHANGED <<users, reg, adminPc>>
    /\ UNCHANGED <<jwtEnv, now, hits, req, uuidCount, admitted, rejected>>

\* DELETE /api/v1/orders/:id: the order is kept and marked cancelled.
DeleteOrder(c, id) ==
    /\ LET orderIndex == FindIndex(orders, id)
       IN  IF ~OrdersAuthenticate(c)
           THEN /\ oresp' = Respond("delete", c, id, 401, "UNAUTHORIZED", <<>>)
                /\ UNCHANGED orders
           ELSE IF orderIndex = 0
           THEN /\ oresp' = Respond("delete", c, id, 404, "ORDER_NOT_FOUND", <<>>)
                /\ UNCHANGED orders
           ELSE IF ~canUpdateOrder(orders[orderIndex], c.uid, c.role)
           THEN /\ oresp' = Respond("delete", c, id, 403, "FORBIDDEN", <<>>)
                /\ UNCHANGED orders
           ELSE /\ orders' = [orders EXCEPT
                                ![orderIndex].status = ORDER_STATUS.CANCELLED]
                /\ oresp' = Respond("delete", c, id, 200, Undefined, <<id>>)
    /\ UNCHANGED <<users, reg, adminPc>>
    /\ UNCHANGED <<jwtEnv, now, hits, req, uuidCount, admitted, rejected>>

\* ------------------------------------------------------- specifications

EnvSecrets == {Undefined, "s3cret"}

\* The services after start-up: nothing stored, app.listen's callback has
\* called createAdminUser, which awaits bcrypt.hash.
SvcInit ==
    /\ users = <<>>
    /\ reg = [s \in RegSlots |-> IdleReg]
    /\ adminPc = "hashing"
    /\ orders = <<>>
    /\ oresp = NoResponse

Init ==
    /\ SvcInit
    /\ jwtEnv \in EnvSecrets
    /\ now = 0
    /\ hits = [k \in ClientKeys |-> 0]
    /\ req = [i \in Slots |-> IdleReq]
    /\ uuidCount = 0
    /\ admitted = [k \in ClientKeys |-> 0]
    /\ rejected = [k \in ClientKeys |-> 0]

\* The gateway, one client's requests one at a time through the whole chain.
Next ==
    \/ \E i \in PipelineSlots, r \in Requests : Arrive(i, "ip1", r)
    \/ \E i \in PipelineSlots : Limiter(i)
    \/ \E i \in PipelineSlots : Enrich(i)
    \/ \E i \in PipelineSlots : Route(i)
    \/ \E i \in PipelineSlots : AuthenticateToken(i)
    \/ \E i \in PipelineSlots, b \in Behaviours : ProxyReq(i, b)
    \/ \E i \in PipelineSlots : UpstreamResponds(i)
    \/ \E i \in PipelineSlots, st \in ProxyErrorStatuses : ProxyError(i, st)
    \/ \E i \in PipelineSlots : Close(i)

Spec == Init /\ [][Next]_vars

\* The limiter under load: health probes of two clients, several in flight
\* at once, over successive windows.
NextLimiter ==
    \/ \E i \in Slots, key \in ClientKeys : Arrive(i, key, Probe)
    \/ \E i \in Slots : Limiter(i)
    \/ \E i \in Slots : Enrich(i)
    \/ \E i \in Slots : Route(i)
    \/ \E i \in Slots : Close(i)
    \/ Tick

\* The limiter reads no secret: the default configuration.
InitLimiter == Init /\ jwtEnv = Undefined

SpecLimiter == InitLimiter /\ [][NextLimiter]_vars

\* The gateway with its scheduling: Node's event loop runs every callback
\* that is ready, and an upstream that answers or refuses does so in time.
\* Arrivals are up to the clients and carry no fairness.
FairSpec ==
    /\ Spec
    /\ \A i \in PipelineSlots :
        /\ WF_vars(Limiter(i))
        /\ WF_vars(Enrich(i))
        /\ WF_vars(Route(i))
        /\ WF_vars(AuthenticateToken(i))
        /\ WF_vars(\E b \in Behaviours : ProxyReq(i, b))
        /\ WF_vars(UpstreamResponds(i))
        /\ WF_vars(\E st \in ProxyErrorStatuses : ProxyError(i, st))
        /\ WF_vars(Close(i))

\* Windows the clock runs on after the issued tokens have expired.
MaxLate == 1

\* The requests of the verifier's run: the profile route with every
\* Authorization header, the request id the client's own.
VerifyRequests ==
    { r \in Requests : /\ r.ep.path = <<"api", "v1", "users", "profile">>
                       /\ r.xrid = "abc-123"
                       /\ r.ident = NoIdentity }

\* The verifier over the lifetime of a token: a client below its ceiling
\* sends requests to a protected route while the clock passes the expiry.
NextVerify ==
    \/ \E i \in PipelineSlots, r \in VerifyRequests : Arrive(i, "ip2", r)
    \/ \E i \in PipelineSlots : Limiter(i)
    \/ \E i \in PipelineSlots : Enrich(i)
    \/ \E i \in PipelineSlots : Route(i)
    \/ \E i \in PipelineSlots : AuthenticateToken(i)
    \/ \E i \in PipelineSlots, b \in Behaviours : ProxyReq(i, b)
    \/ \E i \in PipelineSlots : UpstreamResponds(i)
    \/ \E i \in PipelineSlots, st \in ProxyErrorStatuses : ProxyError(i, st)
    \/ \E i \in PipelineSlots : Close(i)
    \/ TickTo(TokenLife + MaxLate)

SpecVerify == Init /\ [][NextVerify]_vars

\* The users service: registrations interleaved at their awaits with one
\* another and with createAdminUser.
NextUsers ==
    \/ \E s \in RegSlots, email \in RegisterEmails : RegisterCheck(s, email)
    \/ \E s \in RegSlots : RegisterInsert(s)
    \/ AdminCreated
    \/ \E s \in RegSlots : RegClose(s)

SpecUsers == Init /\ [][NextUsers]_vars

\* The orders service: its handlers are synchronous, one request at a time.
NextOrders ==
    \/ \E c \in Callers, body \in OrderBodies : CreateOrder(c, body)
    \/ \E c \in Callers, id \in OrderIds : GetOrder(c, id)
    \/ \E c \in Callers, q \in ListQueries : ListOrders(c, q)
    \/ \E c \in Callers, id \in OrderIds, status \in PatchStatuses :
          PatchOrder(c, id, status)
    \/ \E c \in Callers, id \in OrderIds : DeleteOrder(c, id)

\* The orders service reads no secret: the default configuration.
InitOrders == Init /\ jwtEnv = Undefined

SpecOrders == InitOrders /\ [][NextOrders]_vars

\* ---------------------------------------------------------------- claims

\* A path under a protected mount: /api/v1/users/... other than
\* /api/v1/users/auth/..., and /api/v1/orders/...
IsProtectedPath(path) ==
    \/ IsPrefix(UsersPrefix, path) /\ ~IsPrefix(UsersAuthPrefix, path)
    \/ IsPrefix(OrdersPrefix, path)

\* The token is signed with the gateway's secret and has not expired.
IsValidToken(id) ==
    /\ id \in TokenIds
    /\ Token(id, jwtEnv).key = GatewaySecret(jwtEnv)
    /\ now < Token(id, jwtEnv).exp

\* The request has been handed to the proxy or sent to an upstream.
PastAuth(r) == r.pc \in {"proxy", "forwarded", "threw"} \/ r.upstream # Undefined

\* C1: a request on a protected route reaches the proxy only with the token of
\* its own Authorization header verified; req.user is set only to a verified
\* token; a request answered UNAUTHORIZED or INVALID_TOKEN was sent nowhere.
C1_ForwardOnlyVerified ==
    \A i \in Slots :
        /\ (IsProtectedPath(req[i].path) /\ PastAuth(req[i])) =>
               /\ req[i].user = SplitToken(req[i].authorization)
               /\ IsValidToken(req[i].user)
        /\ req[i].user # Undefined => IsValidToken(req[i].user)
        /\ req[i].code \in {"UNAUTHORIZED", "INVALID_TOKEN"} =>
               /\ req[i].upstream = Undefined
               /\ req[i].user = Undefined

C1_Witness ==
    \E i \in Slots :
        /\ IsProtectedPath(req[i].path)
        /\ req[i].pc = "forwarded"
        /\ req[i].user = "tR"

\* C2: first match wins. A request under /api/v1/users/auth never stands
\* before the token verifier and goes to the users upstream with no
\* principal; any other request under /api/v1/users is sent to the users
\* upstream only with a principal attached by the verifier.
C2_FirstMatchWins ==
    \A i \in Slots :
        /\ IsPrefix(UsersAuthPrefix, req[i].path) =>
               /\ req[i].pc # "auth"
               /\ req[i].user = Undefined
               /\ req[i].layer # 0 => /\ ~Layers[req[i].layer].auth
                                      /\ Layers[req[i].layer].handler = "users"
                                      /\ req[i].code = Undefined
               /\ req[i].upstream \in {Undefined, "users"}
        /\ (IsPrefix(UsersPrefix, req[i].path)
              /\ ~IsPrefix(UsersAuthPrefix, req[i].path)) =>
               /\ req[i].layer # 0 => Layers[req[i].layer].auth
               /\ PastAuth(req[i]) => req[i].user # Undefined
               /\ req[i].upstream \in {Undefined, "users"}

C2_Witness ==
    \E i \in Slots :
        /\ req[i].path = <<"api", "v1", "users", "auth", "login">>
        /\ req[i].pc = "forwarded"
        /\ req[i].upstream = "users"
        /\ req[i].authorization = <<>>

\* The limiter has dealt with the request.
PastLimiter(r) == r.pc \notin {"idle", "received"}

C4_ExactAdmissions ==
    /\ \A k \in ClientKeys :
          LET n == admitted[k] + rejected[k]
          IN  /\ n > max => admitted[k] = max /\ rejected[k] = n - max
              /\ n <= max => rejected[k] = 0
    /\ \A i, j \in Slots :
          (/\ i # j
           /\ PastLimiter(req[i]) /\ PastLimiter(req[j])
           /\ req[i].ip = req[j].ip
           /\ req[i].resetTime = req[j].resetTime) => req[i].current # req[j].current

C4_Witness ==
    \E i, j \in Slots :
        /\ i # j
        /\ req[i].ip = req[j].ip
        /\ req[i].pc = "admitted" /\ req[i].current = max
        /\ req[j].pc = "responded" /\ req[j].status = 429
        /\ rejected[req[i].ip] = 1

\* The gateway's answer is an error: 4xx or 5xx.
IsErrorResponse(r) == r.pc = "responded" /\ r.status >= 400

\* C5: every error response carries the X-Request-ID header.
C5_ErrorsCarryRequestId ==
    \A i \in Slots : IsErrorResponse(req[i]) => Truthy(req[i].resXrid)

\* C6: a request with a non-empty X-Request-ID is answered with that value and
\* forwarded with it; one without is answered with a generated, non-empty
\* identifier that no other request in flight has been given.
C6_RequestIdRoundTrip ==
    \A i \in Slots :
        /\ (req[i].pc = "responded" /\ Truthy(req[i].inXrid)) =>
               req[i].resXrid = req[i].inXrid
        /\ (req[i].upstream # Undefined /\ Truthy(req[i].inXrid)) =>
               req[i].oXrid = req[i].inXrid
        /\ (req[i].pc = "responded" /\ ~Truthy(req[i].inXrid)) =>
               /\ Truthy(req[i].resXrid)
               /\ \A j \in Slots \ {i} : req[j].resXrid # req[i].resXrid

\* C7: a request whose upstream refused the connection is answered 502 with
\* error.code UPSTREAM_UNAVAILABLE.
C7_UpstreamDownIs502 ==
    \A i \in Slots :
        (req[i].pc = "responded" /\ req[i].behaviour = "refuses") =>
            /\ req[i].status = 502
            /\ req[i].code = "UPSTREAM_UNAVAILABLE"

\* C8: every request sent to an upstream is eventually answered, also when
\* the upstream never answers.
C8_ForwardedEventuallyAnswered ==
    \A i \in PipelineSlots :
        (req[i].pc = "forwarded") ~> (req[i].pc = "responded")

\* C9: a request that carries a verified token of the users service leaves
\* the proxy as an upstream call with X-User-ID = the token's userId and
\* X-User-Role = the token's roles.
C9_IdentityHeadersFromToken ==
    \A i \in Slots :
        (req[i].user = "tU" /\ req[i].pc \in {"forwarded", "threw", "responded"}) =>
            /\ req[i].upstream # Undefined
            /\ req[i].oXuid = Token("tU", jwtEnv).userId
            /\ req[i].oXrole = Token("tU", jwtEnv).roles

\* C10: the identity headers of an upstream call are absent or those of the
\* token verified for the request, whatever identity headers the client sent.
C10_OnlyGatewaySetsIdentity ==
    \A i \in Slots :
        req[i].upstream # Undefined =>
            \/ req[i].oXuid = Undefined /\ req[i].oXrole = Undefined
            \/ /\ req[i].user # Undefined
               /\ req[i].oXuid = Token(req[i].user, jwtEnv).userId
               /\ req[i].oXrole \in {Token(req[i].user, jwtEnv).role,
                                     Token(req[i].user, jwtEnv).roles}

\* C11: on a protected route a request without a token is answered 401
\* UNAUTHORIZED and one whose token fails verification 401/403 INVALID_TOKEN,
\* each with its error code in the envelope, req.user unset and nothing sent
\* upstream; no other request is answered with either code.
C11_AuthRejections ==
    \A i \in Slots :
        LET r == req[i]
            token == SplitToken(r.authorization)
        IN  /\ (IsProtectedPath(r.path) /\ r.layer # 0 /\ r.pc = "responded") =>
                  /\ token = Undefined =>
                        /\ r.status = 401 /\ r.code = "UNAUTHORIZED"
                        /\ r.user = Undefined /\ r.upstream = Undefined
                  /\ (token # Undefined /\ ~IsValidToken(token)) =>
                        /\ r.status \in {401, 403} /\ r.code = "INVALID_TOKEN"
                        /\ r.user = Undefined /\ r.upstream = Undefined
            /\ r.code = "UNAUTHORIZED" => IsProtectedPath(r.path) /\ token = Undefined
            /\ r.code = "INVALID_TOKEN" =>
                  /\ IsProtectedPath(r.path)
                  /\ token # Undefined /\ ~IsValidToken(token)

C11_Witness ==
    \E i \in Slots :
        /\ req[i].authorization = <<"Bearer", "tF">>
        /\ req[i].pc = "responded"
        /\ req[i].status = 403
        /\ req[i].code = "INVALID_TOKEN"

\* C12: when authenticateToken verifies a token, a token signed with the
\* gateway's secret and not yet expired is accepted and req.user is that
\* token's payload, subject included; a token with another signature or at or
\* past its expiry is answered INVALID_TOKEN with req.user unset. The outcome
\* is decided by the token, the secret and the clock alone.
C12_VerifyOutcome ==
    [][ \A i \in PipelineSlots :
          LET token == SplitToken(req[i].authorization)
          IN  (req[i].pc = "auth" /\ req'[i].pc # "auth" /\ token # Undefined) =>
                 IF /\ Token(token, jwtEnv).key = GatewaySecret(jwtEnv)
                    /\ now < Token(token, jwtEnv).exp
                 THEN /\ req'[i].pc = "proxy"
                      /\ req'[i].user # Undefined
                      /\ Token(req'[i].user, jwtEnv).userId = Token(token, jwtEnv).userId
                      /\ req'[i].status = 0
                 ELSE /\ req'[i].pc = "responded"
                      /\ req'[i].code = "INVALID_TOKEN"
                      /\ req'[i].user = Undefined ]_vars

C12_Witness ==
    \E i \in PipelineSlots :
        /\ req[i].authorization = <<"Bearer", "tR">>
        /\ Token("tR", jwtEnv).key = GatewaySecret(jwtEnv)
        /\ now = Token("tR", jwtEnv).exp
        /\ req[i].code = "INVALID_TOKEN"

\* C13: when a window has elapsed every client's bucket is gone, and the
\* first request of a client without counted requests is admitted with count
\* 1 and a window of its own, however many requests of the client were
\* counted or rejected before.
C13_FreshWindowAdmits ==
    [][ /\ now' > now => \A k \in ClientKeys : hits'[k] = 0
        /\ \A i \in Slots :
              (req[i].pc = "received" /\ req'[i].pc # "received"
                 /\ hits[req[i].ip] = 0) =>
                 /\ req'[i].pc = "admitted"
                 /\ req'[i].status = 0
                 /\ req'[i].current = 1
                 /\ req'[i].resetTime = now + 1
                 /\ hits'[req[i].ip] = 1 ]_vars

\* A client rejected in the first window and admitted with count 1 in the next.
C13_Witness ==
    \E i, j \in Slots :
        /\ req[i].ip = req[j].ip
        /\ req[i].status = 429 /\ req[i].current > max /\ req[i].resetTime = 1
        /\ req[j].pc = "admitted" /\ req[j].current = 1 /\ req[j].resetTime = 2
        /\ now = 1

\* C14: a GET /health request is answered by the gateway itself, is never
\* authenticated, proxied or sent upstream, and within a window no step
\* changes a rate-limit bucket except by adding one to the bucket of the
\* client whose request passes the limiter; the services' state stays as it is.
C14_HealthTouchesOwnBucket ==
    [][ /\ \A i \in Slots :
              (req'[i].method = "GET" /\ req'[i].path = <<"health">>) =>
                 /\ req'[i].pc \in {"idle", "received", "admitted", "enriched", "responded"}
                 /\ req'[i].upstream = Undefined
                 /\ req'[i].status \in {0, 200, 429}
        /\ now' = now =>
              \A k \in ClientKeys :
                 \/ hits'[k] = hits[k]
                 \/ /\ hits'[k] = hits[k] + 1
                    /\ \E i \in Slots : /\ req[i].ip = k
                                        /\ req[i].path = <<"health">>
                                        /\ req[i].pc = "received"
                                        /\ req'[i].pc # "received"
                    /\ \A o \in ClientKeys \ {k} : hits'[o] = hits[o]
        /\ UNCHANGED <<svcVars, jwtEnv>> ]_vars

\* The health check answered a second time for one client while the other
\* client's bucket holds its own single request.
C14_Witness ==
    \E i \in Slots :
        /\ req[i].path = <<"health">> /\ req[i].status = 200
        /\ req[i].ip = "ip1" /\ req[i].current = 2
        /\ hits["ip1"] = 2 /\ hits["ip2"] = 1

\* The request is none of GET /, GET /health and a path under a proxied mount.
NoRouteFor(method, path) ==
    /\ ~(method = "GET" /\ path = <<>>)
    /\ ~(method = "GET" /\ path = <<"health">>)
    /\ ~IsPrefix(UsersPrefix, path)
    /\ ~IsPrefix(OrdersPrefix, path)

\* C15: a request the limiter admitted that matches no route is answered 404
\* with error code NOT_FOUND and is sent to no upstream, and no request that
\* matches a route is answered NOT_FOUND by the gateway.
C15_UnmatchedIsNotFound ==
    \A i \in Slots :
        LET r == req[i]
        IN  r.layer # 0 =>
               /\ NoRouteFor(r.method, r.path) =>
                     /\ r.pc = "responded"
                     /\ r.status = 404
                     /\ r.code = "NOT_FOUND"
                     /\ r.upstream = Undefined
                     /\ r.user = Undefined
               /\ r.code = "NOT_FOUND" => NoRouteFor(r.method, r.path)

C15_Witness ==
    \E i \in Slots :
        /\ req[i].method = "POST" /\ req[i].path = <<"health">>
        /\ req[i].current >= 1
        /\ req[i].status = 404 /\ req[i].code = "NOT_FOUND"

\* C16: every call the gateway sends to an upstream for an endpoint of its
\* listing has, after pathRewrite, a method and path the upstream service
\* registers a handler for.
C16_RewrittenPathRegistered ==
    \A i \in Slots :
        req[i].upstream # Undefined =>
            Registered(req[i].upstream, req[i].method, req[i].oPath)

\* C17: a token the users service issued is accepted by the gateway on a
\* protected route until it expires: no request carrying one before its
\* expiry is answered INVALID_TOKEN.
C17_IssuedTokenAccepted ==
    \A i \in Slots :
        LET token == SplitToken(req[i].authorization)
        IN  (/\ IsProtectedPath(req[i].path)
             /\ token \in TokenIds
             /\ Token(token, jwtEnv).key = UsersSecret(jwtEnv)
             /\ now < Token(token, jwtEnv).exp) =>
                req[i].code # "INVALID_TOKEN"

\* C18: whatever the interleaving of registrations and the start-up creation
\* of the admin user, no two stored users have the same email.
C18_EmailsUnique ==
    \A a, b \in DOMAIN users :
        a # b => users[a].email # users[b].email

\* The stored order with the id.
OrderById(list, id) == list[FindIndex(list, id)]

\* The caller of the response is the order's owner or an admin.
OwnerOrAdmin(order, r) == order.userId = r.uid \/ r.role = "admin"

\* C19 as stated: whenever a request for an existing order (get, patch or
\* delete by id) comes from a caller who is neither its owner nor an admin,
\* the response is 403.
C19_OthersGet403 ==
    (/\ oresp.op \in {"get", "patch", "delete"}
     /\ FindIndex(orders, oresp.id) # 0
     /\ ~OwnerOrAdmin(OrderById(orders, oresp.id), oresp)) =>
        oresp.status = 403

\* C19, amended: every order a response returns belongs to the caller or the
\* caller is an admin; an order's status changes only in a patch or delete of
\* that order answered 200 to its owner or an admin; a request answered with
\* an error changes no order and returns none; and a request by id for an
\* existing order from any other caller is answered 403 FORBIDDEN, or 401
\* UNAUTHORIZED when it has no X-User-ID, or 400 VALIDATION_ERROR when it is
\* a PATCH whose body fails the schema.
C19_OwnerOrAdminOnly ==
    [][ /\ \A k \in DOMAIN oresp'.returned :
              OwnerOrAdmin(OrderById(orders', oresp'.returned[k]), oresp')
        /\ \A a \in DOMAIN orders :
              OrderById(orders', orders[a].id).status # orders[a].status =>
                 /\ oresp'.op \in {"patch", "delete"}
                 /\ oresp'.id = orders[a].id
                 /\ oresp'.status = 200
                 /\ OwnerOrAdmin(orders[a], oresp')
        /\ oresp'.status \in {400, 401, 403, 404} =>
              orders' = orders /\ oresp'.returned = <<>>
        /\ (/\ oresp'.op \in {"get", "patch", "delete"}
            /\ FindIndex(orders, oresp'.id) # 0
            /\ ~OwnerOrAdmin(OrderById(orders, oresp'.id), oresp')) =>
              \/ oresp'.status = 403 /\ oresp'.code = "FORBIDDEN"
              \/ /\ oresp'.status = 401 /\ oresp'.code = "UNAUTHORIZED"
                 /\ ~Truthy(oresp'.uid)
              \/ /\ oresp'.status = 400 /\ oresp'.code = "VALIDATION_ERROR"
                 /\ oresp'.op = "patch" ]_vars

\* Another user's PATCH of an order was answered 403 and left it as created.
C19_Witness ==
    /\ oresp.op = "patch" /\ oresp.status = 403 /\ oresp.uid = "u2"
    /\ FindIndex(orders, oresp.id) # 0
    /\ OrderById(orders, oresp.id).userId = "u1"
    /\ OrderById(orders, oresp.id).status = ORDER_STATUS.CREATED

\* C20: no step removes an order or changes its id, userId, items or
\* totalAmount; a status changes only to in_progress, completed or cancelled,
\* a DELETE only to cancelled, and never back to created.
C20_OrdersKept ==
    [][ /\ Len(orders') >= Len(orders)
        /\ \A a \in DOMAIN orders :
              \E b \in DOMAIN orders' :
                 LET old == orders[a]
                     new == orders'[b]
                 IN  /\ new.id = old.id
                     /\ new.userId = old.userId
                     /\ new.items = old.items
                     /\ new.totalAmount = old.totalAmount
                     /\ new.status # old.status =>
                           /\ new.status \in {ORDER_STATUS.IN_PROGRESS,
                                              ORDER_STATUS.COMPLETED,
                                              ORDER_STATUS.CANCELLED}
                           /\ oresp'.op = "delete" =>
                                 new.status = ORDER_STATUS.CANCELLED
                     /\ old.status # ORDER_STATUS.CREATED =>
                           new.status # ORDER_STATUS.CREATED ]_vars

\* A DELETE of a completed order was answered 200: both orders are still
\* stored and the deleted one is cancelled.
C20_Witness ==
    /\ oresp.op = "delete" /\ oresp.status = 200
    /\ Len(orders) = MaxOrders
    /\ OrderById(orders, oresp.id).status = ORDER_STATUS.CANCELLED
    /\ \E k \in DOMAIN orders : orders[k].status = ORDER_STATUS.COMPLETED

\* C21: GET /api/v1/orders is read-only: whoever calls it and whatever its
\* query parameters, the stored orders are the same sequence, in the same
\* order, after the request as before it.
C21_ListIsReadOnly ==
    [][ oresp'.op = "list" => orders' = orders ]_vars

====
